---- MODULE Spec2Model ----
(***************************************************************************)
(* Model of the terminus health-indicator slice:                           *)
(*   - HealthIndicatorService / HealthIndicatorSession (the result         *)
(*     builder: check(key).up(data) / .down(data)), and                    *)
(*   - TypeOrmHealthIndicator.pingCheck (the connectivity probe), with the *)
(*     JavaScript run-to-completion semantics: the synchronous prefix of   *)
(*     an async function is one step; a driver settling a promise, a timer *)
(*     firing, a handler of a promise chain and the continuation of an     *)
(*     await are steps of their own, and no timer fires while a handler or *)
(*     a continuation is queued.                                           *)
(***************************************************************************)
EXTENDS Integers, Sequences, FiniteSets, TLC

VARIABLES
    calls,      \* calls[c]: the state of the c-th pingCheck invocation
    session,    \* <<>> or <<s>>: the HealthIndicatorSession under test
    built,      \* <<>> or <<b>>: the last record a session operation returned
    probe       \* the TypeOrmHealthIndicator: what its constructor did

vars == <<calls, session, built, probe>>

(***************************************************************************)
(* Bounds and input sets                                                   *)
(***************************************************************************)
\* number of pingCheck invocations in a behaviour of Spec
MaxCalls == 1
\* number of concurrent pingCheck invocations in a behaviour of PairSpec
PairCalls == 2

\* `options.timeout || 1000`
DefaultTimeout == 1000

Keys == {"db", "cache"}

\* settings.timeout: omitted, or a number of milliseconds
NoTimeout == [given |-> FALSE, ms |-> 0]
TimeoutOptions == {NoTimeout, [given |-> TRUE, ms |-> 0], [given |-> TRUE, ms |-> 50]}

\* connection.options.type
BackendKinds == {"mongodb", "oracle", "sap", "postgres"}

\* connection handles: the one the caller passes in settings.connection and
\* the one the DI context holds
NoHandle == [id |-> "none", type |-> "none"]
CallerHandles == {[id |-> "caller", type |-> k] : k \in BackendKinds}
ContextHandles == {[id |-> "context", type |-> k] : k \in {"postgres", "mongodb"}}

ProbeOptions == [connection : CallerHandles \cup {NoHandle}, timeout : TimeoutOptions]

\* raw error texts of the driver / of the native client
DriverErrors == {"ECONNREFUSED 10.0.0.5:5432", "password authentication failed"}
\* values a liveness query resolves with
QueryValues == {"[{1:1}]", "[]"}

(***************************************************************************)
(* Result builder: health-indicator.service.ts                             *)
(***************************************************************************)
\* the `data?` argument: omitted, a string, or a mapping of fields to values
Omitted == [tag |-> "undefined"]
Str(s) == [tag |-> "string", s |-> s]
Obj(f) == [tag |-> "object", fields |-> f]

EmptyObject == [f \in {} |-> ""]

\* { ...base, ...extra }: the fields of extra are written after, and over,
\* those of base
spread(base, extra) == extra @@ base

\* HealthIndicatorService.check
check(k) == [key |-> k]

\* mutant of additionalData: `if (data && typeof data === 'string')`, the
\* empty string is dropped
additionalData_DropsEmptyString(data) ==
    IF data.tag = "string" /\ data.s # "" THEN [message |-> data.s]
    ELSE IF data.tag = "object" THEN data.fields
    ELSE EmptyObject

\* mutant of additionalData: `additionalData = { message: data }` for
\* everything that is not an object, undefined included
additionalData_WrapsUndefined(data) ==
    IF data.tag = "object" THEN data.fields
    ELSE IF data.tag = "string" THEN [message |-> data.s]
    ELSE [message |-> "undefined"]

\* `let additionalData = {}; if (typeof data === 'string') ... else if
\* (typeof data === 'object') ...`
additionalData(data) ==
    IF data.tag = "string" THEN [message |-> data.s]
    ELSE IF data.tag = "object" THEN data.fields
    ELSE EmptyObject

\* mutant of down: `return { [this.key]: detail, ...additionalData }`
down_SpreadsIntoRecord(s, data) ==
    LET detail == spread([status |-> "down"], additionalData(data))
    IN  spread(s.key :> detail, [f \in DOMAIN additionalData(data) |-> detail])

\* HealthIndicatorSession.down
down(s, data) ==
    LET detail == spread([status |-> "down"], additionalData(data))
    IN  s.key :> detail

\* HealthIndicatorSession.up
up(s, data) ==
    LET detail == spread([status |-> "up"], additionalData(data))
    IN  s.key :> detail

(***************************************************************************)
(* Connectivity probe: database/typeorm.health.ts                          *)
(***************************************************************************)
\* error objects: their class and their message
NoError == [kind |-> "none", message |-> ""]
Error(m) == [kind |-> "Error", message |-> m]
\* `new MongoConnectionError(err.message)`: a subclass of Error that keeps
\* the message it is given
MongoConnectionError(m) == [kind |-> "MongoConnectionError", message |-> m]
\* the error promiseTimeout rejects with when its timer fires
PromiseTimeoutError(ms) == [kind |-> "TimeoutError", message |-> ""]

\* promises
NoPromise == [state |-> "none", value |-> "", err |-> NoError]
Pending == [state |-> "pending", value |-> "", err |-> NoError]
Fulfilled(v) == [state |-> "fulfilled", value |-> v, err |-> NoError]
Rejected(e) == [state |-> "rejected", value |-> "", err |-> e]

\* timers
NoTimer == [state |-> "unarmed", ms |-> 0]
Armed(ms) == [state |-> "armed", ms |-> ms]

\* the history of one invocation.  A call the probe makes on a collaborator:
\* the operation, the object it is called on, its argument and what the call
\* did synchronously (ret).  A callback the probe receives: op is "resolved",
\* "rejected" or "fired", on names the pending operation, arg is the value
\* or the error text.
Ev(op, on, arg, ret) == [op |-> op, on |-> on, arg |-> arg, ret |-> ret]

\* what the collaborators do during the synchronous prefix of one pingCheck:
\*   packages: whether checkPackages finds '@nestjs/typeorm' and 'typeorm'
\*   provider: what moduleRef.get(getDataSourceToken()) does
\*   driver:   what the driver of a mongodb handle does before the side
\*             connect: "ok" when the url is configured or
\*             driver.buildConnectionUrl returns it and
\*             driver.buildConnectionOptions returns; "urlThrows" when no
\*             url is configured and driver.buildConnectionUrl throws;
\*             "optionsThrows" when driver.buildConnectionOptions throws
\*   dispatch: whether the liveness call (connection.query, or
\*             MongoClient.connect) returns a promise or throws
\*             synchronously, and the text of the exception
Environments ==
    [packages : {"present", "missing"},
     provider : [outcome : {"returns"}, value : ContextHandles \cup {NoHandle}]
                \cup {[outcome |-> "throws", value |-> NoHandle]},
     driver : {"ok", "urlThrows", "optionsThrows"},
     dispatch : {"returns", "throws"},
     error : DriverErrors]

\* utils checkPackages(names, reason): TRUE when every package is loadable;
\* otherwise it surfaces a setup error instead of returning
checkPackages(packages) == packages = "present"

\* TypeOrmHealthIndicator.checkDependantPackages
checkDependantPackages(env) == checkPackages(env.packages)

\* the call checkDependantPackages makes
checkDependantPackagesTrace(env) ==
    <<Ev("checkPackages", "utils", "@nestjs/typeorm,typeorm",
         IF env.packages = "present" THEN "ok" ELSE "throws")>>

\* TypeOrmHealthIndicator.getContextConnection: the default handle of the DI
\* context, null when the lookup throws
getContextConnection(env) ==
    IF env.provider.outcome = "throws" THEN NoHandle ELSE env.provider.value

\* the call getContextConnection makes
getContextConnectionTrace(env) ==
    <<Ev("moduleRef.get", "moduleRef", "DataSource",
         IF env.provider.outcome = "throws" THEN "throws"
         ELSE IF env.provider.value = NoHandle THEN "null"
         ELSE env.provider.value.id)>>

\* mutant of livenessQuery: the switch lost its dialect arms
livenessQuery_Generic(type) == "SELECT 1"

\* the query text pingDb's switch selects for connection.options.type
livenessQuery(type) ==
    CASE type = "oracle" -> "SELECT 1 FROM DUAL"
      [] type = "sap" -> "SELECT now() FROM dummy"
      [] OTHER -> "SELECT 1"

\* TypeOrmHealthIndicator.checkMongoDBConnection up to the return of the
\* promise: the executor runs synchronously, takes the url from the options
\* or from driver.buildConnectionUrl, evaluates
\* driver.buildConnectionOptions and then calls MongoClient.connect; an
\* exception thrown inside the executor rejects the promise, and one
\* thrown before the call of MongoClient.connect leaves it uncalled.  The
\* history records the liveness call and the call that threw
checkMongoDBConnection(connection, env) ==
    IF env.driver = "urlThrows"
    THEN [check |-> Rejected(Error(env.error)), client |-> "none",
          trace |-> <<Ev("buildConnectionUrl", connection.id, "", "throws")>>]
    ELSE IF env.driver = "optionsThrows"
    THEN [check |-> Rejected(Error(env.error)), client |-> "none",
          trace |-> <<Ev("buildConnectionOptions", connection.id, "", "throws")>>]
    ELSE IF env.dispatch = "throws"
    THEN [check |-> Rejected(Error(env.error)), client |-> "none",
          trace |-> <<Ev("MongoClient.connect", connection.id, "url", "throws")>>]
    ELSE [check |-> Pending, client |-> "connecting",
          trace |-> <<Ev("MongoClient.connect", connection.id, "url", "promise")>>]

\* mutant of pingDbTimer: `return await check`, without promiseTimeout
pingDbTimer_NoRace(timeout) == NoTimer

\* the timer pingDb arms through promiseTimeout(timeout, check)
pingDbTimer(timeout) == Armed(timeout)

\* mutant of pingDb: the 'oracle' arm of the switch has lost its `break` and
\* falls through to the 'sap' arm, which issues a second query
pingDb_Fallthrough(connection, timeout, env) ==
    LET arm == pingDbTimer(timeout)
        armTrace == IF arm.state = "armed"
                    THEN <<Ev("setTimeout", "timer", ToString(arm.ms), "armed")>>
                    ELSE <<>>
    IN  IF connection.type = "mongodb"
        THEN LET m == checkMongoDBConnection(connection, env)
             IN  [check |-> m.check, client |-> m.client, timer |-> arm,
                  trace |-> m.trace \o armTrace]
        ELSE LET text == livenessQuery(connection.type)
                 first == IF connection.type = "oracle"
                          THEN <<Ev("query", connection.id, text, "promise")>>
                          ELSE <<>>
                 last == IF connection.type = "oracle" THEN livenessQuery("sap") ELSE text
             IN  IF env.dispatch = "throws"
                 THEN [check |-> Rejected(Error(env.error)), client |-> "none",
                       timer |-> NoTimer,
                       trace |-> first \o <<Ev("query", connection.id, last, "throws")>>]
                 ELSE [check |-> Pending, client |-> "none", timer |-> arm,
                       trace |-> first \o <<Ev("query", connection.id, last, "promise")>>
                                 \o armTrace]

\* TypeOrmHealthIndicator.pingDb up to its await: the check it dispatched,
\* the timer it armed and the calls it made.  When connection.query throws
\* synchronously, pingDb rejects before promiseTimeout is reached
pingDb(connection, timeout, env) ==
    LET arm == pingDbTimer(timeout)
        armTrace == IF arm.state = "armed"
                    THEN <<Ev("setTimeout", "timer", ToString(arm.ms), "armed")>>
                    ELSE <<>>
    IN  IF connection.type = "mongodb"
        THEN LET m == checkMongoDBConnection(connection, env)
             IN  [check |-> m.check, client |-> m.client, timer |-> arm,
                  trace |-> m.trace \o armTrace]
        ELSE LET text == livenessQuery(connection.type)
             IN  IF env.dispatch = "throws"
                 THEN [check |-> Rejected(Error(env.error)), client |-> "none",
                       timer |-> NoTimer,
                       trace |-> <<Ev("query", connection.id, text, "throws")>>]
                 ELSE [check |-> Pending, client |-> "none", timer |-> arm,
                       trace |-> <<Ev("query", connection.id, text, "promise")>>
                                 \o armTrace]

\* `options.timeout || 1000`: 0 is falsy
timeoutOf(options) ==
    IF options.timeout.given /\ options.timeout.ms # 0
    THEN options.timeout.ms ELSE DefaultTimeout

\* mutant of noConnection: the `if (!connection)` guard is missing, so
\* pingDb dereferences null and the catch block answers
noConnection_Unguarded(key) == down(check(key), Str(key \o " is not available"))

\* `if (!connection) return check.down('Connection provider not found ...')`
noConnection(key) ==
    down(check(key), Str("Connection provider not found in application context"))

\* mutant of pingCheckCatch: the timeout message names the default budget
pingCheckCatch_DefaultBudget(key, timeout, err) ==
    IF err.kind = "TimeoutError"
    THEN down(check(key), Str("timeout of " \o ToString(DefaultTimeout) \o "ms exceeded"))
    ELSE IF err.kind = "MongoConnectionError"
    THEN down(check(key), Str(err.message))
    ELSE down(check(key), Str(key \o " is not available"))

\* mutant of pingCheckCatch: every non-timeout error reports err.message
pingCheckCatch_LeaksMessage(key, timeout, err) ==
    IF err.kind = "TimeoutError"
    THEN down(check(key), Str("timeout of " \o ToString(timeout) \o "ms exceeded"))
    ELSE down(check(key), Str(err.message))

\* pingCheck's catch block: the record returned for a rejected pingDb
pingCheckCatch(key, timeout, err) ==
    IF err.kind = "TimeoutError"
    THEN down(check(key), Str("timeout of " \o ToString(timeout) \o "ms exceeded"))
    ELSE IF err.kind = "MongoConnectionError"
    THEN down(check(key), Str(err.message))
    ELSE down(check(key), Str(key \o " is not available"))

\* mutant of afterAwait: the session is a field of the probe that every
\* invocation overwrites, so the record is keyed by the started call of the
\* highest slot
afterAwait_SharedSession(call, p) ==
    LET started == {d \in DOMAIN calls : calls[d].pc # "idle"}
        key == IF started = {} THEN call.key
               ELSE calls[CHOOSE d \in started : \A e \in started : e <= d].key
    IN  [call EXCEPT
            !.pc = "returned",
            !.result = IF p.state = "fulfilled"
                       THEN up(check(key), Omitted)
                       ELSE pingCheckCatch(key, call.timeout, p.err)]

\* mutant of afterAwait: the resolved value is passed on to up()
afterAwait_PassesValue(call, p) ==
    [call EXCEPT
        !.pc = "returned",
        !.result = IF p.state = "fulfilled"
                   THEN up(check(call.key), Str(p.value))
                   ELSE pingCheckCatch(call.key, call.timeout, p.err)]

\* pingCheck after `await this.pingDb(connection, timeout)` has settled with
\* promise p: the call returns its record
afterAwait(call, p) ==
    [call EXCEPT
        !.pc = "returned",
        !.result = IF p.state = "fulfilled"
                   THEN up(check(call.key), Omitted)
                   ELSE pingCheckCatch(call.key, call.timeout, p.err)]

\* mutant of resolveConnection: `this.getContextConnection() ||
\* options.connection`, the handle of the context is preferred
resolveConnection_PrefersContext(options, env) ==
    [connection |-> IF getContextConnection(env) # NoHandle
                    THEN getContextConnection(env) ELSE options.connection,
     trace |-> getContextConnectionTrace(env)]

\* `options.connection || this.getContextConnection()`: the handle pingCheck
\* uses and the calls made to obtain it; the provider is only evaluated
\* when options.connection is falsy
resolveConnection(options, env) ==
    IF options.connection # NoHandle
    THEN [connection |-> options.connection, trace |-> <<>>]
    ELSE [connection |-> getContextConnection(env),
          trace |-> getContextConnectionTrace(env)]

\* a call that has not been made
IdleCall ==
    [pc |-> "idle", key |-> "", options |-> [connection |-> NoHandle, timeout |-> NoTimeout],
     connection |-> NoHandle, timeout |-> 0, check |-> NoPromise, timer |-> NoTimer,
     client |-> "none", trace |-> <<>>, result |-> <<>>]

\* mutant of pingCheck: the connection is resolved before the packages are
\* checked
pingCheck_ResolvesFirst(key, options, env) ==
    LET resolved == resolveConnection(options, env)
        connection == resolved.connection
        t1 == resolved.trace \o checkDependantPackagesTrace(env)
        timeout == timeoutOf(options)
        started == [IdleCall EXCEPT !.key = key, !.options = options]
    IN  IF ~checkDependantPackages(env)
        THEN [started EXCEPT !.pc = "threw", !.trace = t1]
        ELSE IF connection = NoHandle
        THEN [started EXCEPT
                !.pc = "returned", !.timeout = timeout, !.trace = t1,
                !.result = noConnection(key)]
        ELSE LET d == pingDb(connection, timeout, env)
                 dispatched == [started EXCEPT
                    !.pc = "awaiting", !.connection = connection, !.timeout = timeout,
                    !.check = d.check, !.timer = d.timer, !.client = d.client,
                    !.trace = t1 \o d.trace]
             IN  dispatched

\* TypeOrmHealthIndicator.pingCheck up to its first suspension (or to its
\* return, when it returns or throws without suspending).  It suspends at
\* `await this.pingDb(...)` also when pingDb's promise is already rejected:
\* the catch block then runs in a later microtask, after the synchronous
\* code of the caller
pingCheck(key, options, env) ==
    LET t0 == checkDependantPackagesTrace(env)
        resolved == resolveConnection(options, env)
        connection == resolved.connection
        t1 == t0 \o resolved.trace
        timeout == timeoutOf(options)
        started == [IdleCall EXCEPT !.key = key, !.options = options]
    IN  IF ~checkDependantPackages(env)
        THEN [started EXCEPT !.pc = "threw", !.trace = t0]
        ELSE IF connection = NoHandle
        THEN [started EXCEPT
                !.pc = "returned", !.timeout = timeout, !.trace = t1,
                !.result = noConnection(key)]
        ELSE LET d == pingDb(connection, timeout, env)
                 dispatched == [started EXCEPT
                    !.pc = "awaiting", !.connection = connection, !.timeout = timeout,
                    !.check = d.check, !.timer = d.timer, !.client = d.client,
                    !.trace = t1 \o d.trace]
             IN  dispatched

(***************************************************************************)
(* Promise and timer events                                                *)
(***************************************************************************)
\* a promise settles once: resolve/reject on a settled promise do nothing
settleOnce(p, q) == IF p.state = "pending" THEN q ELSE p

\* promiseTimeout's race, as pingCheck sees it when it resumes from its
\* await: a timer that has fired has rejected the race with a TimeoutError,
\* for a timer only fires while the check is pending; otherwise the race
\* has the outcome of the check
raceOutcome(call) ==
    IF call.timer.state = "fired"
    THEN Rejected(PromiseTimeoutError(call.timer.ms))
    ELSE call.check

\* the timer of promiseTimeout fires
onTimer(call) ==
    [call EXCEPT
        !.timer.state = "fired",
        !.trace = Append(@, Ev("fired", "timer", ToString(call.timer.ms), ""))]

\* connection.query(...) resolves with value v: the promise pingDb races
\* is the promise of the query
queryResolved(call, v) ==
    [call EXCEPT
        !.check = settleOnce(@, Fulfilled(v)),
        !.trace = Append(@, Ev("resolved", "query", v, ""))]

\* connection.query(...) rejects with error text e
queryRejected(call, e) ==
    [call EXCEPT
        !.check = settleOnce(@, Rejected(Error(e))),
        !.trace = Append(@, Ev("rejected", "query", e, ""))]

\* the driver resolves MongoClient.connect with a client; the handlers of
\* the chain of lines 79-85 run later
connectResolved(call) ==
    [call EXCEPT
        !.client = "connected",
        !.trace = Append(@, Ev("resolved", "connect", "client", ""))]

\* the driver rejects MongoClient.connect with message m
connectRejected(call, m) ==
    [call EXCEPT
        !.client = "connectFailed",
        !.trace = Append(@, Ev("rejected", "connect", m, ""))]

\* the driver resolves the promise client.close() returned
closeResolved(call) ==
    [call EXCEPT
        !.client = "closed",
        !.trace = Append(@, Ev("resolved", "close", "", ""))]

\* the driver rejects the promise client.close() returned
closeRejected(call) ==
    [call EXCEPT
        !.client = "closeFailed",
        !.trace = Append(@, Ev("rejected", "close", "", ""))]

\* the message MongoClient.connect was rejected with
connectError(call) ==
    LET tr == call.trace
        i == CHOOSE j \in DOMAIN tr : tr[j].op = "rejected" /\ tr[j].on = "connect"
    IN  tr[i].arg

\* mutant of mongoConnectRejected: `.catch((err) => reject(err))`, the
\* error is not wrapped into a MongoConnectionError
mongoConnectRejected_Unwrapped(call, m) ==
    LET rejected == settleOnce(call.check, Rejected(Error(m)))
        resolved == settleOnce(rejected, Fulfilled(""))
    IN  [call EXCEPT !.check = resolved]

\* checkMongoDBConnection, the handlers that follow a rejected
\* MongoClient.connect: .catch(err => reject(new MongoConnectionError(
\* err.message))) rejects the check; the handler returns undefined, so
\* .then(client => client.close()) throws a TypeError without calling close
\* on any client; .catch(() => {}) swallows it and .then(() => resolve())
\* calls resolve on the settled check
mongoConnectRejected(call, m) ==
    LET rejected == settleOnce(call.check, Rejected(MongoConnectionError(m)))
        resolved == settleOnce(rejected, Fulfilled(""))
    IN  [call EXCEPT !.check = resolved]

\* mutant of mongoCloseFailed: the no-op .catch(() => {}) is missing and the
\* chain ends `.then(() => resolve(), reject)`
mongoCloseFailed_Propagates(call) ==
    [call EXCEPT !.check = settleOnce(@, Rejected(Error("Topology is closed")))]

\* checkMongoDBConnection, the handlers that follow a failed client.close()
\* (it threw, or the promise it returned rejected): .catch(() => {})
\* swallows the failure and .then(() => resolve()) fulfils the check
mongoCloseFailed(call) ==
    [call EXCEPT !.check = settleOnce(@, Fulfilled(""))]

\* checkMongoDBConnection, the handlers that follow a client.close() that
\* succeeded: .then(() => resolve())
mongoClosed(call) ==
    [call EXCEPT !.check = settleOnce(@, Fulfilled(""))]

\* mutant of mongoConnected: the side client is only closed while pingCheck
\* is still awaiting; a client that connects after the return is left open
mongoConnected_SkipsLateClose(call, close) ==
    IF call.pc # "awaiting"
    THEN [call EXCEPT !.client = "leftOpen"]
    ELSE IF close = "throws"
    THEN [call EXCEPT
            !.client = "closeFailed",
            !.trace = Append(@, Ev("close", "sideClient", "", "throws"))]
    ELSE [call EXCEPT
            !.client = "closing",
            !.trace = Append(@, Ev("close", "sideClient", "", "promise"))]

\* checkMongoDBConnection, the handler that follows a resolved
\* MongoClient.connect: .then(client => client.close()) calls close, which
\* throws, or returns a promise that settles later
mongoConnected(call, close) ==
    IF close = "throws"
    THEN [call EXCEPT
            !.client = "closeFailed",
            !.trace = Append(@, Ev("close", "sideClient", "", "throws"))]
    ELSE [call EXCEPT
            !.client = "closing",
            !.trace = Append(@, Ev("close", "sideClient", "", "promise"))]

(***************************************************************************)
(* Actions                                                                 *)
(***************************************************************************)
\* what checkPackages finds while the probe is constructed
ConstructionEnvironments == [packages : {"present", "missing"}]

\* TypeOrmHealthIndicator constructor: `super(); this.checkDependantPackages()`.
\* When the check fails no probe exists and pingCheck cannot be invoked
constructor(env) ==
    [constructed |-> checkDependantPackages(env),
     trace |-> checkDependantPackagesTrace(env)]

Init ==
    /\ calls = [c \in 1..MaxCalls |-> IdleCall]
    /\ session = <<>>
    /\ built = <<>>
    /\ \E env \in ConstructionEnvironments : probe = constructor(env)

\* a call suspended at `await this.pingDb(...)` on a promise that is
\* settled: its continuation is a queued microtask
AwaitPending(call) ==
    /\ call.pc = "awaiting"
    /\ call.check.state # "pending" \/ call.timer.state = "fired"

\* a handler of the chain of lines 79-85 is queued: the one that calls
\* close, or the ones that settle the check
ChainPending(call) ==
    \/ call.client = "connected"
    \/ call.client \in {"connectFailed", "closed", "closeFailed"} /\ call.check.state = "pending"

\* the outcome of the call is decided or about to be, and pingCheck has not
\* resumed from its await yet: handlers are queued that lead to its return
Suspended(call) == call.pc = "awaiting" /\ (AwaitPending(call) \/ ChainPending(call))

\* the microtask queue is empty; the runtime runs no timer before it is
MicrotasksDrained ==
    \A d \in DOMAIN calls : ~AwaitPending(calls[d]) /\ ~ChainPending(calls[d])

\* the c-th invocation of pingCheck(key, options), with its arguments
\* <<key, options>> drawn from A and the collaborators' behaviour from E;
\* invocations are numbered in the order they are made
Invoke(c, A, E) ==
    /\ probe.constructed
    /\ calls[c].pc = "idle"
    /\ \A d \in DOMAIN calls : d < c => calls[d].pc # "idle"
    /\ \E args \in A, env \in E :
        calls' = [calls EXCEPT ![c] = pingCheck(args[1], args[2], env)]
    /\ UNCHANGED <<session, built, probe>>

PingCheck(c) == Invoke(c, Keys \X ProbeOptions, Environments)

\* the continuation of pingCheck after its await, run as a microtask once
\* the awaited promise is settled: the catch block of lines 141-150 or
\* `return check.up()`
PingCheckResumes(c) ==
    /\ AwaitPending(calls[c])
    /\ calls' = [calls EXCEPT ![c] = afterAwait(@, raceOutcome(@))]
    /\ UNCHANGED <<session, built, probe>>

QueryResolves(c) ==
    /\ calls[c].client = "none"
    /\ calls[c].check.state = "pending"
    /\ \E v \in QueryValues : calls' = [calls EXCEPT ![c] = queryResolved(@, v)]
    /\ UNCHANGED <<session, built, probe>>

QueryRejects(c) ==
    /\ calls[c].client = "none"
    /\ calls[c].check.state = "pending"
    /\ \E e \in DriverErrors : calls' = [calls EXCEPT ![c] = queryRejected(@, e)]
    /\ UNCHANGED <<session, built, probe>>

ConnectResolves(c) ==
    /\ calls[c].client = "connecting"
    /\ calls' = [calls EXCEPT ![c] = connectResolved(@)]
    /\ UNCHANGED <<session, built, probe>>

ConnectRejects(c) ==
    /\ calls[c].client = "connecting"
    /\ \E m \in DriverErrors : calls' = [calls EXCEPT ![c] = connectRejected(@, m)]
    /\ UNCHANGED <<session, built, probe>>

CloseResolves(c) ==
    /\ calls[c].client = "closing"
    /\ calls' = [calls EXCEPT ![c] = closeResolved(@)]
    /\ UNCHANGED <<session, built, probe>>

CloseRejects(c) ==
    /\ calls[c].client = "closing"
    /\ calls' = [calls EXCEPT ![c] = closeRejected(@)]
    /\ UNCHANGED <<session, built, probe>>

\* microtask: .then(client => client.close()) of line 80
SideClientCloses(c) ==
    /\ calls[c].client = "connected"
    /\ \E close \in {"throws", "promise"} :
        calls' = [calls EXCEPT ![c] = mongoConnected(@, close)]
    /\ UNCHANGED <<session, built, probe>>

\* microtasks: the handlers of lines 79-85 that settle the check
CheckSettles(c) ==
    /\ calls[c].check.state = "pending"
    /\ calls[c].client \in {"connectFailed", "closed", "closeFailed"}
    /\ calls' = [calls EXCEPT ![c] =
            IF @.client = "connectFailed" THEN mongoConnectRejected(@, connectError(@))
            ELSE IF @.client = "closed" THEN mongoClosed(@)
            ELSE mongoCloseFailed(@)]
    /\ UNCHANGED <<session, built, probe>>

TimerFires(c) ==
    /\ MicrotasksDrained
    /\ calls[c].timer.state = "armed"
    /\ calls' = [calls EXCEPT ![c] = onTimer(@)]
    /\ UNCHANGED <<session, built, probe>>

Next ==
    \/ \E c \in DOMAIN calls : PingCheck(c)
    \/ \E c \in DOMAIN calls : PingCheckResumes(c)
    \/ \E c \in DOMAIN calls : QueryResolves(c)
    \/ \E c \in DOMAIN calls : QueryRejects(c)
    \/ \E c \in DOMAIN calls : ConnectResolves(c)
    \/ \E c \in DOMAIN calls : ConnectRejects(c)
    \/ \E c \in DOMAIN calls : CloseResolves(c)
    \/ \E c \in DOMAIN calls : CloseRejects(c)
    \/ \E c \in DOMAIN calls : SideClientCloses(c)
    \/ \E c \in DOMAIN calls : CheckSettles(c)
    \/ \E c \in DOMAIN calls : TimerFires(c)

Spec == Init /\ [][Next]_vars

(***************************************************************************)
(* Progress: the invocations of Spec on fewer arguments, with the          *)
(* scheduling of the runtime                                               *)
(***************************************************************************)
FairArguments ==
    {"db"} \X [connection : {[id |-> "caller", type |-> "postgres"],
                             [id |-> "caller", type |-> "mongodb"],
                             NoHandle},
               timeout : {NoTimeout, [given |-> TRUE, ms |-> 50]}]

FairEnvironments ==
    [packages : {"present", "missing"},
     provider : {[outcome |-> "throws", value |-> NoHandle]},
     driver : {"ok", "optionsThrows"},
     dispatch : {"returns", "throws"},
     error : {"ECONNREFUSED 10.0.0.5:5432"}]

FairPingCheck(c) == Invoke(c, FairArguments, FairEnvironments)

FairNext ==
    \/ \E c \in DOMAIN calls : FairPingCheck(c)
    \/ \E c \in DOMAIN calls : PingCheckResumes(c)
    \/ \E c \in DOMAIN calls : QueryResolves(c)
    \/ \E c \in DOMAIN calls : QueryRejects(c)
    \/ \E c \in DOMAIN calls : ConnectResolves(c)
    \/ \E c \in DOMAIN calls : ConnectRejects(c)
    \/ \E c \in DOMAIN calls : CloseResolves(c)
    \/ \E c \in DOMAIN calls : CloseRejects(c)
    \/ \E c \in DOMAIN calls : SideClientCloses(c)
    \/ \E c \in DOMAIN calls : CheckSettles(c)
    \/ \E c \in DOMAIN calls : TimerFires(c)

\* the runtime runs every timer that is due and every queued handler and
\* continuation
FairSpec ==
    /\ Init
    /\ [][FairNext]_vars
    /\ \A c \in 1..MaxCalls : WF_vars(TimerFires(c))
    /\ \A c \in 1..MaxCalls : WF_vars(PingCheckResumes(c))
    /\ \A c \in 1..MaxCalls : WF_vars(SideClientCloses(c))
    /\ \A c \in 1..MaxCalls : WF_vars(CheckSettles(c))

(***************************************************************************)
(* Concurrent invocations: PairCalls calls in flight at once, on handles   *)
(* the caller supplies                                                     *)
(***************************************************************************)
PairArguments ==
    LET postgres == [id |-> "caller", type |-> "postgres"]
        mongodb == [id |-> "caller", type |-> "mongodb"]
        ms50 == [given |-> TRUE, ms |-> 50]
    IN  {<<"db", [connection |-> postgres, timeout |-> ms50]>>,
         <<"cache", [connection |-> postgres, timeout |-> NoTimeout]>>,
         <<"db", [connection |-> mongodb, timeout |-> ms50]>>}

PairEnvironments ==
    [packages : {"present"},
     provider : {[outcome |-> "throws", value |-> NoHandle]},
     driver : {"ok", "optionsThrows"},
     dispatch : {"returns", "throws"},
     error : {"ECONNREFUSED 10.0.0.5:5432"}]

PairInit ==
    /\ calls = [c \in 1..PairCalls |-> IdleCall]
    /\ session = <<>>
    /\ built = <<>>
    /\ \E env \in ConstructionEnvironments : probe = constructor(env)

PairPingCheck(c) == Invoke(c, PairArguments, PairEnvironments)

PairNext ==
    \/ \E c \in DOMAIN calls : PairPingCheck(c)
    \/ \E c \in DOMAIN calls : PingCheckResumes(c)
    \/ \E c \in DOMAIN calls : QueryResolves(c)
    \/ \E c \in DOMAIN calls : QueryRejects(c)
    \/ \E c \in DOMAIN calls : ConnectResolves(c)
    \/ \E c \in DOMAIN calls : ConnectRejects(c)
    \/ \E c \in DOMAIN calls : CloseResolves(c)
    \/ \E c \in DOMAIN calls : CloseRejects(c)
    \/ \E c \in DOMAIN calls : SideClientCloses(c)
    \/ \E c \in DOMAIN calls : CheckSettles(c)
    \/ \E c \in DOMAIN calls : TimerFires(c)

PairSpec == PairInit /\ [][PairNext]_vars

(***************************************************************************)
(* The result builder on its own                                           *)
(***************************************************************************)
BuilderKeys == {"db", "status", "message"}
BuilderFields == {"status", "message", "db"}
BuilderValues == {"up", "down", "hello"}
BuilderStrings == {"", "hello", "up"}
BuilderObjects == UNION {[S -> BuilderValues] : S \in SUBSET BuilderFields}
BuilderData ==
    {Omitted} \cup {Str(t) : t \in BuilderStrings} \cup {Obj(f) : f \in BuilderObjects}

\* healthIndicatorService.check(k)
Check ==
    /\ \E k \in BuilderKeys : session' = <<check(k)>>
    /\ UNCHANGED <<calls, built, probe>>

\* session.up(d)
SessionUp ==
    /\ session # <<>>
    /\ \E d \in BuilderData :
        built' = <<[op |-> "up", session |-> session[1], data |-> d,
                    record |-> up(session[1], d)]>>
    /\ UNCHANGED <<calls, session, probe>>

\* session.down(d)
SessionDown ==
    /\ session # <<>>
    /\ \E d \in BuilderData :
        built' = <<[op |-> "down", session |-> session[1], data |-> d,
                    record |-> down(session[1], d)]>>
    /\ UNCHANGED <<calls, session, probe>>

BuilderNext == Check \/ SessionUp \/ SessionDown

BuilderSpec == Init /\ [][BuilderNext]_vars

(***************************************************************************)
(* Properties                                                              *)
(***************************************************************************)
\* the calls of the synchronous dispatch that can throw: the liveness
\* call, and before the side connect the calls that derive its arguments
DispatchCalls == {"query", "buildConnectionUrl", "buildConnectionOptions", "MongoClient.connect"}

\* the dispatch threw synchronously at event e
DispatchThrew(e) == e.op \in DispatchCalls /\ e.ret = "throws"

\* the events of a history that settle the dispatched check: the query
\* settling, a synchronous throw of the dispatch, the side connect
\* rejecting, the close of the side client settling or throwing
SettleEvent(e) ==
    \/ e.op \in {"resolved", "rejected"} /\ e.on \in {"query", "close"}
    \/ e.op = "rejected" /\ e.on = "connect"
    \/ DispatchThrew(e)
    \/ e.op = "close" /\ e.ret = "throws"

FiredEvent(e) == e.op = "fired" /\ e.on = "timer"

\* no timer event before position i of history tr
NotFiredBefore(tr, i) == \A j \in 1..(i - 1) : ~FiredEvent(tr[j])

\* the timer fired before the check settled
TimerWon(tr) ==
    \E i \in DOMAIN tr :
        FiredEvent(tr[i]) /\ \A j \in 1..(i - 1) : ~SettleEvent(tr[j])

\* the check settled before the timer fired
CheckWon(tr) ==
    \E i \in DOMAIN tr : SettleEvent(tr[i]) /\ NotFiredBefore(tr, i)

\* the budgets of the timers armed in history tr, as printed
ArmedBudgets(tr) == {tr[i].arg : i \in {j \in DOMAIN tr : tr[j].op = "setTimeout"}}

\* the texts of the queries issued in history tr
QueryTexts(tr) == {tr[i].arg : i \in {j \in DOMAIN tr : tr[j].op = "query"}}

Calls(tr, op) == {i \in DOMAIN tr : tr[i].op = op}

\* C1: the detail object built by up(d) / down(d) has the literal status of
\* the operation, whatever d holds.
C1_LiteralStatusWins ==
    built # <<>> =>
        built[1].record[built[1].session.key].status = built[1].op

\* C2: no invocation of pingCheck ends by throwing.
C2_NeverThrows == \A c \in DOMAIN calls : calls[c].pc # "threw"

\* C3: when the timer fires before the dispatched check has settled, the
\* call, once resumed from its await, has returned { key: { status: "down", message: "timeout of <ms>ms
\* exceeded" } } with <ms> the budget the timer was armed with, also while
\* the check is still pending.
C3_TimeoutRecord ==
    \A c \in DOMAIN calls :
        (TimerWon(calls[c].trace) /\ ~Suspended(calls[c])) =>
            /\ calls[c].pc = "returned"
            /\ \E ms \in ArmedBudgets(calls[c].trace) :
                /\ ArmedBudgets(calls[c].trace) = {ms}
                /\ calls[c].result =
                    (calls[c].key :>
                        [status |-> "down",
                         message |-> "timeout of " \o ms \o "ms exceeded"])

C3_Witness ==
    \E c \in DOMAIN calls :
        /\ TimerWon(calls[c].trace)
        /\ calls[c].check.state = "pending"
        /\ calls[c].options.timeout = [given |-> TRUE, ms |-> 50]
        /\ calls[c].result = [db |-> [status |-> "down", message |-> "timeout of 50ms exceeded"]]

\* C4: a call whose timer has fired returns, and, the timer being fair,
\* every call that dispatched a check eventually returns, whether or not the
\* query or the side connection ever settles.
C4_ReturnsByTimer ==
    /\ \A c \in 1..MaxCalls :
            (calls[c].timer.state = "fired") ~> (calls[c].pc = "returned")
    /\ \A c \in 1..MaxCalls :
            (calls[c].pc = "awaiting") ~> (calls[c].pc = "returned")

C4_Witness ==
    \E c \in DOMAIN calls :
        /\ calls[c].connection.type = "mongodb"
        /\ calls[c].client = "connecting"
        /\ calls[c].check.state = "pending"
        /\ calls[c].timer.state = "fired"
        /\ calls[c].pc = "returned"

\* the provider was consulted and yielded no handle
ProviderYieldedNone(tr) ==
    \E i \in Calls(tr, "moduleRef.get") : tr[i].ret \in {"null", "throws"}

\* C5: with settings.connection absent and no handle from the provider, the
\* call has returned { key: { status: "down", message: "Connection provider
\* not found in application context" } } having issued no query, opened no
\* side connection and armed no timer.
C5_NoHandleRecord ==
    \A c \in DOMAIN calls :
        (calls[c].options.connection = NoHandle /\ ProviderYieldedNone(calls[c].trace)) =>
            /\ calls[c].pc = "returned"
            /\ calls[c].result =
                (calls[c].key :>
                    [status |-> "down",
                     message |-> "Connection provider not found in application context"])
            /\ \A i \in DOMAIN calls[c].trace :
                calls[c].trace[i].op \in {"checkPackages", "moduleRef.get"}
            /\ calls[c].timer.state = "unarmed"
            /\ calls[c].check.state = "none"
            /\ calls[c].client = "none"

C5_Witness ==
    \E c \in DOMAIN calls :
        /\ calls[c].options.connection = NoHandle
        /\ \E i \in Calls(calls[c].trace, "moduleRef.get") : calls[c].trace[i].ret = "throws"
        /\ calls[c].result =
            [db |-> [status |-> "down",
                     message |-> "Connection provider not found in application context"]]

\* C6: when the check settles successfully before the timer fires, the
\* call, once resumed from its await, has returned { key: { status: "up" } } and nothing else, whatever the
\* query resolved with.
C6_UpRecord ==
    \A c \in DOMAIN calls :
        (/\ CheckWon(calls[c].trace)
         /\ calls[c].check.state = "fulfilled"
         /\ ~Suspended(calls[c])) =>
            /\ calls[c].pc = "returned"
            /\ calls[c].result = (calls[c].key :> [status |-> "up"])

C6_Witness ==
    \E c \in DOMAIN calls :
        /\ CheckWon(calls[c].trace)
        /\ calls[c].check = Fulfilled("[{1:1}]")
        /\ calls[c].result = [cache |-> [status |-> "up"]]

\* C7: when the side connect of a mongodb handle rejects with message m
\* before the timer fires, the call, once resumed from its await, has
\* returned { key: { status: "down", message: m } }.
C7_ConnectErrorVerbatim ==
    \A c \in DOMAIN calls :
        \A i \in DOMAIN calls[c].trace :
            (/\ calls[c].trace[i].op = "rejected"
             /\ calls[c].trace[i].on = "connect"
             /\ NotFiredBefore(calls[c].trace, i)
             /\ ~Suspended(calls[c])) =>
                /\ calls[c].pc = "returned"
                /\ calls[c].result =
                    (calls[c].key :>
                        [status |-> "down", message |-> calls[c].trace[i].arg])

C7_Witness ==
    \E c \in DOMAIN calls :
        /\ calls[c].connection.type = "mongodb"
        /\ calls[c].client = "connectFailed"
        /\ calls[c].timer.state = "armed"
        /\ calls[c].result =
            [db |-> [status |-> "down", message |-> "password authentication failed"]]

\* position i of history tr is a failure of the close of the side client
CloseFailedAt(tr, i) ==
    \/ tr[i].op = "rejected" /\ tr[i].on = "close"
    \/ tr[i].op = "close" /\ tr[i].ret = "throws"

\* C8 as stated: once the side connect has succeeded before the timer fired,
\* a failed close leaves the call, once resumed from its await, returned
\* with { key: { status: "up" } }.
C8_CloseFailureNeverDown ==
    \A c \in DOMAIN calls :
        \A i, j \in DOMAIN calls[c].trace :
            (/\ calls[c].trace[i].op = "resolved"
             /\ calls[c].trace[i].on = "connect"
             /\ NotFiredBefore(calls[c].trace, i)
             /\ CloseFailedAt(calls[c].trace, j)
             /\ ~Suspended(calls[c])) =>
                /\ calls[c].pc = "returned"
                /\ calls[c].result = (calls[c].key :> [status |-> "up"])

\* C8 amended: once the side connect has succeeded and the close of the side
\* client has failed, both before the timer fired, the call, once resumed
\* from its await, has returned { key: { status: "up" } }.
C8_CloseFailureSwallowed ==
    \A c \in DOMAIN calls :
        \A j \in DOMAIN calls[c].trace :
            (/\ CloseFailedAt(calls[c].trace, j)
             /\ NotFiredBefore(calls[c].trace, j)
             /\ ~Suspended(calls[c])) =>
                /\ calls[c].pc = "returned"
                /\ calls[c].result = (calls[c].key :> [status |-> "up"])

C8_Witness ==
    \E c \in DOMAIN calls :
        /\ \E j \in DOMAIN calls[c].trace :
            /\ calls[c].trace[j].op = "rejected"
            /\ calls[c].trace[j].on = "close"
            /\ NotFiredBefore(calls[c].trace, j)
        /\ calls[c].client = "closeFailed"
        /\ calls[c].result = [db |-> [status |-> "up"]]

\* position i of history tr is an unclassified failure of the check: the
\* query rejecting, or the dispatch throwing synchronously
UnclassifiedAt(tr, i) ==
    \/ tr[i].op = "rejected" /\ tr[i].on = "query"
    \/ DispatchThrew(tr[i])

UnclassifiedFailure(tr) ==
    \E i \in DOMAIN tr : UnclassifiedAt(tr, i) /\ NotFiredBefore(tr, i)

\* C9: when the check fails before the timer fires with an error that is
\* neither a timeout nor a connection-open error, the call, once resumed
\* from its await, has returned
\* { key: { status: "down", message: "<key> is not available" } }; two such
\* calls with the same key hold identical records and no record carries a
\* driver error text.
C9_GenericFailureRecord ==
    \A c \in DOMAIN calls :
        (UnclassifiedFailure(calls[c].trace) /\ ~Suspended(calls[c])) =>
            /\ calls[c].pc = "returned"
            /\ calls[c].result =
                (calls[c].key :>
                    [status |-> "down", message |-> calls[c].key \o " is not available"])
            /\ calls[c].result[calls[c].key].message \notin DriverErrors
            /\ \A d \in DOMAIN calls :
                (/\ UnclassifiedFailure(calls[d].trace)
                 /\ ~Suspended(calls[d])
                 /\ calls[d].key = calls[c].key) =>
                    calls[d].result = calls[c].result

C9_Witness ==
    \E c, d \in DOMAIN calls :
        /\ c # d
        /\ calls[c].key = calls[d].key
        /\ \E i \in DOMAIN calls[c].trace, j \in DOMAIN calls[d].trace :
            /\ calls[c].trace[i] = Ev("rejected", "query", "ECONNREFUSED 10.0.0.5:5432", "")
            /\ calls[d].trace[j] = Ev("rejected", "query", "password authentication failed", "")
            /\ NotFiredBefore(calls[c].trace, i)
            /\ NotFiredBefore(calls[d].trace, j)
        /\ calls[c].result = [db |-> [status |-> "down", message |-> "db is not available"]]
        /\ calls[d].result = calls[c].result

\* the arguments of the side connect could not be derived: the driver threw
\* before MongoClient.connect was called
PreparationThrew(tr) ==
    \E i \in DOMAIN tr :
        tr[i].op \in {"buildConnectionUrl", "buildConnectionOptions"} /\ tr[i].ret = "throws"

\* C10 amended: the liveness operation follows the backend kind of the
\* handle: oracle issues SELECT 1 FROM DUAL, sap issues SELECT now() FROM
\* dummy, every other kind but mongodb issues SELECT 1; mongodb issues no
\* query and opens a side connection whenever the url and the options of the
\* connect can be derived from the handle, and issues no liveness operation
\* when deriving them throws.
C10_DispatchByKindOnceDerived ==
    \A c \in DOMAIN calls :
        calls[c].connection # NoHandle =>
            LET tr == calls[c].trace
                type == calls[c].connection.type
            IN  /\ type = "oracle" =>
                    QueryTexts(tr) = {"SELECT 1 FROM DUAL"} /\ Calls(tr, "MongoClient.connect") = {}
                /\ type = "sap" =>
                    QueryTexts(tr) = {"SELECT now() FROM dummy"} /\ Calls(tr, "MongoClient.connect") = {}
                /\ type = "mongodb" =>
                    /\ QueryTexts(tr) = {}
                    /\ PreparationThrew(tr) => Calls(tr, "MongoClient.connect") = {}
                    /\ ~PreparationThrew(tr) =>
                        Cardinality(Calls(tr, "MongoClient.connect")) = 1
                /\ type \notin {"oracle", "sap", "mongodb"} =>
                    /\ QueryTexts(tr) = {"SELECT 1"}
                    /\ Calls(tr, "MongoClient.connect") = {}
                /\ type # "mongodb" => ~PreparationThrew(tr)

\* C10 as stated: the liveness operation follows the backend kind of the
\* handle: oracle issues SELECT 1 FROM DUAL, sap issues SELECT now() FROM
\* dummy, mongodb issues no query and opens a side connection, every other
\* kind issues SELECT 1.
C10_DispatchByKind ==
    \A c \in DOMAIN calls :
        calls[c].connection # NoHandle =>
            LET tr == calls[c].trace
                type == calls[c].connection.type
            IN  /\ type = "oracle" =>
                    QueryTexts(tr) = {"SELECT 1 FROM DUAL"} /\ Calls(tr, "MongoClient.connect") = {}
                /\ type = "sap" =>
                    QueryTexts(tr) = {"SELECT now() FROM dummy"} /\ Calls(tr, "MongoClient.connect") = {}
                /\ type = "mongodb" =>
                    QueryTexts(tr) = {} /\ Calls(tr, "MongoClient.connect") # {}
                /\ type \notin {"oracle", "sap", "mongodb"} =>
                    QueryTexts(tr) = {"SELECT 1"} /\ Calls(tr, "MongoClient.connect") = {}

C10_Witness ==
    \E c \in DOMAIN calls :
        /\ calls[c].connection.type = "mongodb"
        /\ ~PreparationThrew(calls[c].trace)
        /\ QueryTexts(calls[c].trace) = {}
        /\ \E i \in DOMAIN calls[c].trace :
            calls[c].trace[i] = Ev("MongoClient.connect", "caller", "url", "promise")

\* C11: the record returned by up(d) / down(d) has exactly one entry, under
\* the key the session was created with, also when d has a field of that
\* name and for every later call on the session.
C11_SingleKey ==
    built # <<>> => DOMAIN built[1].record = {built[1].session.key}

C11_Witness ==
    /\ built # <<>>
    /\ built[1].op = "down"
    /\ built[1].session.key = "db"
    /\ built[1].data = Obj([db |-> "hello", message |-> "hello"])
    /\ DOMAIN built[1].record = {"db"}

\* the operation named op, applied to session s and data d
Apply(op, s, d) == IF op = "up" THEN up(s, d) ELSE down(s, d)

\* C12: up(s) and down(s) on a string s return what they return on the
\* mapping { message: s }, the empty string included.
C12_StringIsMessage ==
    (built # <<>> /\ built[1].data.tag = "string") =>
        /\ built[1].record =
            Apply(built[1].op, built[1].session, Obj([message |-> built[1].data.s]))
        /\ built[1].record =
            (built[1].session.key :>
                [status |-> built[1].op, message |-> built[1].data.s])

C12_Witness ==
    /\ built # <<>>
    /\ built[1].op = "up"
    /\ built[1].data = Str("")
    /\ built[1].record = [db |-> [status |-> "up", message |-> ""]]

\* C13: up() and down() without data return { k: { status } } and no other
\* field.
C13_OmittedDataStatusOnly ==
    (built # <<>> /\ built[1].data.tag = "undefined") =>
        built[1].record = (built[1].session.key :> [status |-> built[1].op])

C13_Witness ==
    /\ built # <<>>
    /\ built[1].data = Omitted
    /\ built[1].record = [message |-> [status |-> "down"]]

\* the terminal states of an invocation, read from what it returned
HandleMissing(call) ==
    /\ call.pc = "returned"
    /\ call.connection = NoHandle
    /\ call.result =
        (call.key :> [status |-> "down",
                      message |-> "Connection provider not found in application context"])

Completed(call) ==
    /\ call.pc = "returned"
    /\ call.connection # NoHandle
    /\ call.result = (call.key :> [status |-> "up"])

TimedOut(call) ==
    /\ call.pc = "returned"
    /\ call.connection # NoHandle
    /\ \E ms \in ArmedBudgets(call.trace) :
        call.result =
            (call.key :> [status |-> "down",
                          message |-> "timeout of " \o ms \o "ms exceeded"])

Failed(call) ==
    /\ call.pc = "returned"
    /\ call.connection # NoHandle
    /\ call.result[call.key].status = "down"
    /\ ~TimedOut(call)

TerminalStates(call) ==
    {t \in {"HandleMissing", "Completed", "TimedOut", "Failed"} :
        \/ t = "HandleMissing" /\ HandleMissing(call)
        \/ t = "Completed" /\ Completed(call)
        \/ t = "TimedOut" /\ TimedOut(call)
        \/ t = "Failed" /\ Failed(call)}

\* the invocation is over: pingCheck has returned or thrown
Ended(call) == call.pc \in {"returned", "threw"}

\* C14, first part: the timer firing first ends the call in TimedOut, the
\* check settling first ends it, once resumed from its await, in Completed
\* or Failed, and events that arrive later leave that state as it is.
C14_FirstEventDecides ==
    \A c \in DOMAIN calls :
        /\ (TimerWon(calls[c].trace) /\ ~Suspended(calls[c])) =>
            TerminalStates(calls[c]) = {"TimedOut"}
        /\ (CheckWon(calls[c].trace) /\ ~Suspended(calls[c])) =>
            \/ TerminalStates(calls[c]) = {"Completed"} /\ calls[c].check.state = "fulfilled"
            \/ TerminalStates(calls[c]) = {"Failed"} /\ calls[c].check.state = "rejected"

\* C14, second part: once a call has returned, no step changes its record.
C14_ResultStable ==
    [][\A c \in DOMAIN calls :
        calls[c].pc = "returned" =>
            calls'[c].pc = "returned" /\ calls'[c].result = calls[c].result]_vars

\* C14: every invocation that is over is in exactly one of the terminal
\* states HandleMissing, Completed, TimedOut and Failed, decided by the
\* first of {check settles, timer fires}.
C14_ExactlyOneTerminalState ==
    /\ C14_FirstEventDecides
    /\ \A c \in DOMAIN calls :
        Ended(calls[c]) => Cardinality(TerminalStates(calls[c])) = 1

\* the liveness operations issued in history tr: queries on the handle and
\* side connects
LivenessOperations(tr) == Calls(tr, "query") \cup Calls(tr, "MongoClient.connect")

\* C15: an invocation issues at most one liveness operation (one query or
\* one side connect), also after a failure or a timeout: exactly one once a
\* handle is resolved, none when the arguments of the side connect could not
\* be derived; and the only object it closes is the side client, never the
\* connection handle.
C15_OneLivenessOperation ==
    \A c \in DOMAIN calls :
        /\ Cardinality(LivenessOperations(calls[c].trace)) <= 1
        /\ (calls[c].connection # NoHandle /\ ~PreparationThrew(calls[c].trace)) =>
            Cardinality(LivenessOperations(calls[c].trace)) = 1
        /\ PreparationThrew(calls[c].trace) => LivenessOperations(calls[c].trace) = {}
        /\ \A i \in Calls(calls[c].trace, "close") :
            /\ calls[c].trace[i].on = "sideClient"
            /\ calls[c].trace[i].on # calls[c].connection.id

C15_Witness ==
    \E c \in DOMAIN calls :
        /\ calls[c].connection.type = "oracle"
        /\ calls[c].check.state = "rejected"
        /\ calls[c].timer.state = "fired"
        /\ calls[c].pc = "returned"
        /\ Cardinality(Calls(calls[c].trace, "query")) = 1

\* C16: the budget of the race, and the one the timeout message names, is
\* settings.timeout whenever it is supplied (0 included) and 1000 ms when it
\* is omitted.
C16_BudgetIsSetting ==
    \A c \in DOMAIN calls :
        calls[c].timer.state # "unarmed" =>
            LET budget == IF calls[c].options.timeout.given
                          THEN calls[c].options.timeout.ms ELSE 1000
            IN  /\ calls[c].timer.ms = budget
                /\ ArmedBudgets(calls[c].trace) = {ToString(budget)}
                /\ (TimerWon(calls[c].trace) /\ calls[c].pc = "returned") =>
                    calls[c].result[calls[c].key].message =
                        "timeout of " \o ToString(budget) \o "ms exceeded"

\* the positions of history tr where the liveness operation was dispatched:
\* the liveness call, or the call that threw while deriving its arguments
Dispatched(tr) == {i \in DOMAIN tr : tr[i].op \in DispatchCalls}

\* C17: a handle supplied in settings.connection is the one the liveness
\* operation is dispatched against, and the provider is not consulted;
\* without one the provider is consulted once and the liveness operation is
\* dispatched against the handle it returned.
C17_CallerHandlePreferred ==
    \A c \in DOMAIN calls :
        LET tr == calls[c].trace
            asked == Calls(tr, "moduleRef.get")
        IN  /\ calls[c].options.connection # NoHandle =>
                /\ asked = {}
                /\ calls[c].pc # "threw" =>
                    /\ calls[c].connection = calls[c].options.connection
                    /\ Cardinality(Dispatched(tr)) = 1
                    /\ \A j \in Dispatched(tr) :
                        tr[j].on = calls[c].options.connection.id
            /\ (calls[c].options.connection = NoHandle /\ calls[c].pc \notin {"idle", "threw"}) =>
                /\ Cardinality(asked) = 1
                /\ \A i \in asked :
                    tr[i].ret \notin {"null", "throws"} =>
                        /\ calls[c].connection.id = tr[i].ret
                        /\ Cardinality(Dispatched(tr)) = 1
                        /\ \A j \in Dispatched(tr) : tr[j].on = tr[i].ret

C17_Witness ==
    \E c \in DOMAIN calls :
        /\ calls[c].options.connection = NoHandle
        /\ calls[c].connection = [id |-> "context", type |-> "mongodb"]
        /\ \E i, j \in DOMAIN calls[c].trace :
            /\ calls[c].trace[i] = Ev("moduleRef.get", "moduleRef", "DataSource", "context")
            /\ calls[c].trace[j] = Ev("MongoClient.connect", "context", "url", "promise")

\* C18: the package-presence check runs once in the constructor and once in
\* every invocation, where it is the first thing done; when it fails there,
\* no handle is resolved and no liveness operation is issued.
C18_PackagesCheckedFirst ==
    /\ Cardinality(Calls(probe.trace, "checkPackages")) = 1
    /\ \A c \in DOMAIN calls :
        calls[c].pc # "idle" =>
            /\ Calls(calls[c].trace, "checkPackages") = {1}
            /\ calls[c].trace[1].ret = "throws" =>
                /\ Len(calls[c].trace) = 1
                /\ calls[c].pc = "threw"
                /\ calls[c].connection = NoHandle
                /\ calls[c].check.state = "none"
                /\ calls[c].timer.state = "unarmed"

C18_Witness ==
    \E c \in DOMAIN calls :
        /\ probe.constructed
        /\ calls[c].options.connection = NoHandle
        /\ calls[c].trace = <<Ev("checkPackages", "utils", "@nestjs/typeorm,typeorm", "throws")>>
        /\ calls[c].pc = "threw"

\* the first event of history tr that ends the race between the dispatched
\* check and the timer; 0 when there is none yet
DecisiveEvents(tr) == {i \in DOMAIN tr : FiredEvent(tr[i]) \/ SettleEvent(tr[i])}

Decisive(tr) ==
    IF DecisiveEvents(tr) = {} THEN 0
    ELSE CHOOSE i \in DecisiveEvents(tr) : \A j \in DecisiveEvents(tr) : i <= j

\* the record a call owes to its own key, its own timeout setting and the
\* outcome of its own race
OwnRecord(call) ==
    LET e == call.trace[Decisive(call.trace)]
        budget == IF call.options.timeout.given /\ call.options.timeout.ms # 0
                  THEN call.options.timeout.ms ELSE DefaultTimeout
    IN  IF FiredEvent(e)
        THEN call.key :> [status |-> "down",
                          message |-> "timeout of " \o ToString(budget) \o "ms exceeded"]
        ELSE IF e.op = "rejected" /\ e.on = "connect"
        THEN call.key :> [status |-> "down", message |-> e.arg]
        ELSE IF \/ e.op = "rejected" /\ e.on = "query"
                \/ DispatchThrew(e)
        THEN call.key :> [status |-> "down", message |-> call.key \o " is not available"]
        ELSE call.key :> [status |-> "up"]

\* C19: with several invocations in flight in any interleaving, every call
\* whose race between check and timer is decided has, once resumed from its
\* await, returned the record determined by its own key, its own timeout
\* and its own race, whatever the other calls did.
C19_CallsIndependent ==
    \A c \in DOMAIN calls :
        (Decisive(calls[c].trace) # 0 /\ ~Suspended(calls[c])) =>
            /\ calls[c].pc = "returned"
            /\ calls[c].result = OwnRecord(calls[c])

C19_Witness ==
    \E c, d \in DOMAIN calls :
        /\ c < d
        /\ calls[c].result = [cache |-> [status |-> "up"]]
        /\ calls[d].result = [db |-> [status |-> "down", message |-> "timeout of 50ms exceeded"]]
        /\ calls[d].check.state = "pending"

\* the positions of history tr where the side connect succeeded, and where
\* it failed: MongoClient.connect rejecting or throwing
ConnectSucceeded(tr) == {i \in DOMAIN tr : tr[i].op = "resolved" /\ tr[i].on = "connect"}

ConnectFailed(tr) ==
    {i \in DOMAIN tr :
        \/ tr[i].op = "rejected" /\ tr[i].on = "connect"
        \/ tr[i].op = "MongoClient.connect" /\ tr[i].ret = "throws"}

\* C20: on the mongodb path close is called on the side client exactly once
\* for a side connect that succeeded, by the handler that runs directly
\* after that success and before any timer or other event of the call,
\* also when the timer has fired before and pingCheck has returned; when the
\* side connect failed close is never called.
C20_SideClientClosedOnce ==
    \A c \in DOMAIN calls :
        LET tr == calls[c].trace IN
        /\ Cardinality(ConnectSucceeded(tr)) <= 1
        /\ \A i \in ConnectSucceeded(tr) :
            Calls(tr, "close") = IF calls[c].client = "connected" THEN {} ELSE {i + 1}
        /\ ConnectSucceeded(tr) = {} => Calls(tr, "close") = {}
        /\ ConnectFailed(tr) # {} => Calls(tr, "close") = {}
        /\ \A i \in Calls(tr, "close") : tr[i].on = "sideClient"

C20_Witness ==
    \E c \in DOMAIN calls :
        LET tr == calls[c].trace IN
        /\ calls[c].connection.type = "mongodb"
        /\ calls[c].result = [db |-> [status |-> "down", message |-> "timeout of 50ms exceeded"]]
        /\ calls[c].client = "closed"
        /\ \E i \in ConnectSucceeded(tr) :
            /\ ~NotFiredBefore(tr, i)
            /\ tr[i + 1] = Ev("close", "sideClient", "", "promise")

====
